---- MODULE Spec2Model ----
(***************************************************************************)
(* A model of src/bot.py: a bot that streams a subreddit's moderation      *)
(* reports, deduplicates them against a PostgreSQL table and forwards new  *)
(* ones to a Discord webhook.                                              *)
(*                                                                         *)
(* Text is modelled as a sequence of one-character strings, so that        *)
(* slicing, quoting and escaping are computed and not assumed.             *)
(***************************************************************************)
EXTENDS Integers, Sequences, FiniteSets, TLC

VARIABLES
  env,          \* os.environ: configuration variable -> "unset" | "empty" | "set"
  pc,           \* position of the process
  err,          \* what ended the process ("none" while it runs)
  skip_discord, \* self.skip_discord, as read at startup
  conn,         \* TRUE once psycopg2.connect has returned (self.conn)
  table,        \* TRUE once public.reports exists (durable)
  store,        \* committed rows of public.reports, in insertion order (durable)
  cur,          \* the report the loop body is processing (None between items)
  pulled,       \* history: identities yielded by the stream, in arrival order
  runStart,     \* history: Len(pulled) when the running process started
  attempts,     \* history: calls of __send_to_discord, [report, at, ok]
  embed,        \* the last document built by __generate_embed (None before)
  out,          \* the last line printed / the last result returned
  saved,        \* history: identities __save_report was executed for
  walk          \* the locals of __get_submission_from_comment, hop by hop

vars == <<env, pc, err, skip_discord, conn, table, store, cur, pulled,
          runStart, attempts, embed, out, saved, walk>>

None == "None"

(***************************************************************************)
(* Bounds of the model                                                     *)
(***************************************************************************)
MaxPulls == 4      \* feed items pulled over a behaviour
MaxDepth == 20     \* nesting depth of a comment on the site
MaxRenderDepth == 10 \* nesting depth of a comment handed to the renderer
MaxBodyLen == 122  \* length of a body text
MaxReasons == 2    \* length of a report-reason list
MaxIdLen == 2      \* length of an identity string handed to the store
MaxRows == 3       \* rows of the table in the store specification

(***************************************************************************)
(* Text helpers                                                            *)
(***************************************************************************)
RECURSIVE Flatten(_)
Flatten(ss) ==
  IF Len(ss) = 0 THEN <<>>
  ELSE IF Len(ss) = 1 THEN ss[1]
  ELSE LET h == Len(ss) \div 2
       IN  Flatten(SubSeq(ss, 1, h)) \o Flatten(SubSeq(ss, h + 1, Len(ss)))

\* python: sep.join(lines)
RECURSIVE Join(_, _)
Join(sep, lines) ==
  IF lines = <<>> THEN <<>>
  ELSE IF Len(lines) = 1 THEN Head(lines)
  ELSE Head(lines) \o sep \o Join(sep, Tail(lines))

\* python: s[:n]
Slice(s, n) == SubSeq(s, 1, IF Len(s) < n THEN Len(s) ELSE n)

\* json.dumps of a str (default ensure_ascii; the characters used are ASCII)
JsonEscape(c) ==
  IF c = "\"" THEN <<"\\", "\"">>
  ELSE IF c = "\\" THEN <<"\\", "\\">>
  ELSE IF c = "\n" THEN <<"\\", "n">>
  ELSE <<c>>

JsonDumps(s) ==
  <<"\"">> \o Flatten([i \in 1..Len(s) |-> JsonEscape(s[i])]) \o <<"\"">>

(***************************************************************************)
(* The dedup store: public.reports(id, report), reached through two        *)
(* queries built with str.format.                                          *)
(***************************************************************************)
Quote == "'"

\* What follows the {} in both query templates: the closing quote and the
\* closing parenthesis.
QueryTail == <<Quote, ")">>

\* PostgreSQL's reading of a string literal whose opening quote has been
\* consumed: '' is one quote character, a single quote ends the literal, and
\* the statement is well formed only if exactly ")" is left after it.
RECURSIVE SqlScan(_, _, _)
SqlScan(text, i, acc) ==
  IF i > Len(text) THEN [ok |-> FALSE, val |-> <<>>]
  ELSE IF text[i] = Quote
    THEN IF i + 1 <= Len(text) /\ text[i + 1] = Quote
           THEN SqlScan(text, i + 2, Append(acc, Quote))
           ELSE [ok |-> SubSeq(text, i + 1, Len(text)) = <<")">>, val |-> acc]
    ELSE SqlScan(text, i + 1, Append(acc, text[i]))

\* "... report='{}')".format(report): the value the server compares or
\* inserts, or ok = FALSE when the statement is a syntax error.
SqlLiteral(report) == SqlScan(report \o QueryTail, 1, <<>>)

ReportExistsAlwaysFalse(rows, report) == [ok |-> TRUE, val |-> FALSE]

\* __report_exists: ok = FALSE stands for the exception cursor.execute raises.
ReportExists(rows, report) ==
  LET lit == SqlLiteral(report)
  IN  IF ~lit.ok THEN [ok |-> FALSE, val |-> FALSE]
      ELSE [ok |-> TRUE,
            val |-> \E i \in 1..Len(rows) : rows[i].report = lit.val]

SaveReportFirst(rows, report) ==
  LET lit == SqlLiteral(report)
  IN  IF ~lit.ok THEN [ok |-> FALSE, rows |-> rows]
      ELSE [ok |-> TRUE,
            rows |-> <<[id |-> Len(rows) + 1, report |-> lit.val]>> \o rows]

\* __save_report: INSERT and commit; the id is generated by the identity
\* column, rows are never deleted, so it is the row count plus one.
SaveReport(rows, report) ==
  LET lit == SqlLiteral(report)
  IN  IF ~lit.ok THEN [ok |-> FALSE, rows |-> rows]
      ELSE [ok |-> TRUE,
            rows |-> Append(rows, [id |-> Len(rows) + 1, report |-> lit.val])]

HasRow(rows, text) == \E i \in 1..Len(rows) : rows[i].report = text

(***************************************************************************)
(* The site: two submissions and, under each, one chain of comments.       *)
(* Nodes 1 and 2 are the submissions; comment c replies to node c - 2, so  *)
(* odd comments hang under submission 1 and even ones under submission 2.  *)
(***************************************************************************)
Submissions == {1, 2}
MaxNode == 2 * (MaxDepth + 2)
Comments == 3..MaxNode

\* comment.parent()
Parent(c) == c - 2

\* comment.is_root: the parent is the submission
IsRoot(c) == Parent(c) \in Submissions

\* submission.title
Title(n) == IF n = 1 THEN <<"T">> ELSE IF n = 2 THEN <<"U", "\"">> ELSE <<>>

\* the walk refreshes when refresh_counter % 9 == 0
RefreshEvery == 9

RECURSIVE Walk(_, _, _, _)
Walk(ancestor, refresh_counter, refreshed, refreshOk) ==
  IF IsRoot(ancestor)
    THEN [ok |-> TRUE, result |-> Parent(ancestor),
          hops |-> refresh_counter, refreshed |-> refreshed]
    ELSE LET a == Parent(ancestor)
         IN  IF refresh_counter % RefreshEvery = 0
               THEN IF refreshOk
                      THEN Walk(a, refresh_counter + 1, Append(refreshed, a), refreshOk)
                      ELSE [ok |-> FALSE, result |-> None,
                            hops |-> refresh_counter, refreshed |-> refreshed]
               ELSE Walk(a, refresh_counter + 1, refreshed, refreshOk)

GetSubmissionFromCommentNoWalk(comment, refreshOk) ==
  [ok |-> TRUE, result |-> Parent(comment), hops |-> 0, refreshed |-> <<>>]

\* __get_submission_from_comment; refreshOk = FALSE: ancestor.refresh() raises
GetSubmissionFromComment(comment, refreshOk) == Walk(comment, 0, <<>>, refreshOk)

(***************************************************************************)
(* Reports and the notification document                                   *)
(***************************************************************************)
\* A report is a record
\*   [id, type, author, node, body, mod_reports, user_reports]
\* id: str(report); type: the class praw built; author: a name or None (the
\* account is gone); node: its place on the site; body: selftext or body;
\* mod_reports, user_reports: sequences of <<reason, name>>.

\* __get_report_type
GetReportType(report) ==
  IF report.type = "submission" THEN "submission" ELSE "comment"

\* __get_report_url: permalink is a method on the comments of this praw
GetReportUrl(report) ==
  IF report.type = "comment"
    THEN <<"https://www.reddit.com/r/", "SUBREDDIT", "permalink", report.id>>
    ELSE <<"https://www.reddit.com", "permalink", report.id>>

\* the slices report.selftext[:120] and report.body[:120]
ExcerptLen == 120

Ellipsis == <<".", ".", ".">>

ExcerptOffByOne(text) ==
  IF Len(text) >= ExcerptLen THEN Slice(text, ExcerptLen) \o Ellipsis ELSE text

\* text[:120] + '...' if len(text) > 120 else text
Excerpt(text) ==
  IF Len(text) > ExcerptLen THEN Slice(text, ExcerptLen) \o Ellipsis ELSE text

\* '{} - {}'.format(reason, user)
ReportLine(r) == <<r[1], " - ", r[2]>>

\* '\n'.join(lines) over the formatted pairs
ReportLines(reports) ==
  Join(<<"\n">>, [i \in 1..Len(reports) |-> ReportLine(reports[i])])

ReportFieldsAlways(report) ==
  <<[name |-> <<"Mod Reports">>, value |-> ReportLines(report.mod_reports)],
    [name |-> <<"User Reports">>, value |-> ReportLines(report.user_reports)]>>

\* the two optional fields, lines 113-137
ReportFields(report) ==
  (IF Len(report.mod_reports) > 0
     THEN <<[name |-> <<"Mod Reports">>, value |-> ReportLines(report.mod_reports)]>>
     ELSE <<>>)
  \o
  (IF Len(report.user_reports) > 0
     THEN <<[name |-> <<"User Reports">>, value |-> ReportLines(report.user_reports)]>>
     ELSE <<>>)

\* the content of the embed, lines 93-111: ok = FALSE when the ancestor walk
\* raises or when what it returns has no title
ContentField(report, refreshOk) ==
  IF GetReportType(report) = "submission"
    THEN [ok |-> TRUE,
          field |-> [name |-> JsonDumps(Title(report.node)),
                     value |-> JsonDumps(Excerpt(report.body))]]
    ELSE LET w == GetSubmissionFromComment(report.node, refreshOk)
         IN  IF ~w.ok \/ w.result \notin Submissions
               THEN [ok |-> FALSE, field |-> None]
               ELSE [ok |-> TRUE,
                     field |-> [name |-> JsonDumps(Title(w.result)),
                                value |-> JsonDumps(Excerpt(report.body))]]

\* __generate_embed. err: "render" when report.author is None
\* (report.author.name raises), "walk" when the content cannot be built.
GenerateEmbed(report, refreshOk) ==
  IF report.author = None THEN [ok |-> FALSE, err |-> "render", embed |-> None]
  ELSE LET c == ContentField(report, refreshOk)
       IN  IF ~c.ok THEN [ok |-> FALSE, err |-> "walk", embed |-> None]
           ELSE [ok |-> TRUE, err |-> "none",
                 embed |->
                   [title |-> <<"A ", GetReportType(report), " by ",
                                report.author, " has been reported">>,
                    url |-> GetReportUrl(report),
                    author |-> <<report.author, "https://reddit.com/u/", report.author>>,
                    fields |-> <<c.field>> \o ReportFields(report)
                               \o <<[name |-> <<GetReportType(report), " posted by ",
                                                report.author>>,
                                     value |-> <<"Account created", "Link karma",
                                                 "Comment karma">>]>>,
                    footer |-> "Powered by PRAW and /u/b0xors"]]

(***************************************************************************)
(* The process: __init__ and run                                           *)
(***************************************************************************)
Required == {"WEBHOOK", "SUBREDDIT", "CLIENT_ID", "CLIENT_SECRET",
             "REFRESH_TOKEN", "USER_AGENT", "DATABASE_URL"}

ConfigVars == Required \cup {"SKIP_DISCORD"}

\* os.environ.get(name, False): the text of the variable, or False
PyFalse == [set |-> FALSE, text |-> <<>>]
Text(t) == [set |-> TRUE, text |-> t]

\* the values a required variable takes, and those of SKIP_DISCORD
RequiredValues == {PyFalse, Text(<<"x">>)}
SkipValues == {PyFalse, Text(<<>>), Text(<<"1">>), Text(<<"0">>),
               Text(<<"f", "a", "l", "s", "e">>)}

TruthyParsed(v) ==
  v.set /\ v.text \notin {<<>>, <<"0">>, <<"f", "a", "l", "s", "e">>}

\* python truthiness of False or a str
Truthy(v) == v.set /\ Len(v.text) > 0

ConfigMissingWebhookOnly(e) == ~e["WEBHOOK"].set

\* False in (self.webhook, ...): a str never equals False, the empty one included
ConfigMissing(e) == \E v \in Required : ~e[v].set

\* the environments of the model: at most one required variable is not "x"
Environments ==
  {[v \in ConfigVars |->
      IF v = "SKIP_DISCORD" THEN s ELSE IF v = d THEN x ELSE Text(<<"x">>)] :
     s \in SkipValues, d \in Required, x \in RequiredValues}

NoReport == [id |-> <<>>, type |-> "none", author |-> None, node |-> 0,
             body |-> <<>>, mod_reports |-> <<>>, user_reports |-> <<>>]

NoWalk == [pc |-> "idle", start |-> 0, ancestor |-> 0, refresh_counter |-> 0,
           refreshed |-> <<>>, result |-> 0]

NoEmbed == [ok |-> FALSE, err |-> "none", embed |-> None]

NoOut == [op |-> "none", arg |-> <<>>, ok |-> TRUE, val |-> "False"]

\* The reports the feed of the model yields: praw's ids are base-36 text.
FeedReports ==
  { [id |-> <<"a">>, type |-> "submission", author |-> "alice", node |-> 1,
     body |-> <<"h", "i">>, mod_reports |-> <<<<"spam", "mod1">>>>,
     user_reports |-> <<>>],
    [id |-> <<"b">>, type |-> "comment", author |-> "bob", node |-> 7,
     body |-> <<"y", "o">>, mod_reports |-> <<>>,
     user_reports |-> <<<<"rude", "1">>>>],
    [id |-> <<"c">>, type |-> "comment", author |-> None, node |-> 4,
     body |-> <<>>, mod_reports |-> <<>>, user_reports |-> <<>>] }

Running == {"listening", "checking", "saving", "sending", "logging"}
InItem == {"checking", "saving", "sending", "logging"}
Ended == {"exited", "crashed", "killed"}

Init ==
  /\ env \in Environments
  /\ pc = "start"
  /\ err = "none"
  /\ skip_discord = PyFalse
  /\ conn = FALSE
  /\ table = FALSE
  /\ store = <<>>
  /\ cur = NoReport
  /\ pulled = <<>>
  /\ runStart = 0
  /\ attempts = <<>>
  /\ embed = NoEmbed
  /\ out = NoOut
  /\ saved = {}
  /\ walk = NoWalk

\* __init__, lines 15-25: a required variable is not set
StartupMissing ==
  /\ pc = "start"
  /\ ConfigMissing(env)
  /\ pc' = "exited"
  /\ err' = "config"
  /\ out' = [op |-> "print", arg |-> <<>>, ok |-> TRUE, val |-> "not set"]
  /\ UNCHANGED <<walk, env, skip_discord, conn, table, store, cur, pulled, runStart,
                 attempts, embed, saved>>

\* __init__, lines 30-40: psycopg2.connect raises
StartupConnectFail ==
  /\ pc = "start"
  /\ ~ConfigMissing(env)
  /\ skip_discord' = env["SKIP_DISCORD"]
  /\ pc' = "crashed"
  /\ err' = "connect"
  /\ out' = [op |-> "print", arg |-> <<>>, ok |-> TRUE, val |-> "Connecting"]
  /\ UNCHANGED <<walk, env, conn, table, store, cur, pulled, runStart, attempts,
                 embed, saved>>

StartupOkRecreatesTable ==
  /\ pc = "start"
  /\ ~ConfigMissing(env)
  /\ skip_discord' = env["SKIP_DISCORD"]
  /\ conn' = TRUE
  /\ table' = TRUE
  /\ store' = <<>>
  /\ pc' = "listening"
  /\ out' = [op |-> "print", arg |-> <<>>, ok |-> TRUE, val |-> "Starting stream"]
  /\ UNCHANGED <<walk, env, err, cur, pulled, runStart, attempts, embed, saved>>

\* __init__, lines 30-45, and line 187 of run
StartupOk ==
  /\ pc = "start"
  /\ ~ConfigMissing(env)
  /\ skip_discord' = env["SKIP_DISCORD"]
  /\ conn' = TRUE
  /\ table' = TRUE
  /\ pc' = "listening"
  /\ out' = [op |-> "print", arg |-> <<>>, ok |-> TRUE, val |-> "Starting stream"]
  /\ UNCHANGED <<walk, env, err, store, cur, pulled, runStart, attempts, embed, saved>>

\* lines 188-189: the stream yields a report
Pull ==
  /\ pc = "listening"
  /\ Len(pulled) < MaxPulls
  /\ \E r \in FeedReports :
       /\ cur' = r
       /\ pulled' = Append(pulled, r.id)
       /\ out' = [op |-> "print", arg |-> r.id, ok |-> TRUE, val |-> "Checking"]
  /\ pc' = "checking"
  /\ UNCHANGED <<walk, env, err, skip_discord, conn, table, store, runStart,
                 attempts, embed, saved>>

\* line 188: the stream raises
StreamError ==
  /\ pc = "listening"
  /\ pc' = "crashed"
  /\ err' = "stream"
  /\ UNCHANGED <<walk, env, skip_discord, conn, table, store, cur, pulled, runStart,
                 attempts, embed, out, saved>>

\* lines 190-192
Check ==
  /\ pc = "checking"
  /\ LET e == ReportExists(store, cur.id)
     IN  IF ~e.ok
           THEN /\ pc' = "crashed"
                /\ err' = "sql"
                /\ out' = [op |-> "exists", arg |-> cur.id, ok |-> FALSE, val |-> "False"]
           ELSE IF e.val
             THEN /\ pc' = "listening"
                  /\ err' = err
                  /\ out' = [op |-> "print", arg |-> cur.id, ok |-> TRUE,
                             val |-> "already reported"]
             ELSE /\ pc' = "saving"
                  /\ err' = err
                  /\ out' = [op |-> "exists", arg |-> cur.id, ok |-> TRUE, val |-> "False"]
  /\ UNCHANGED <<walk, env, skip_discord, conn, table, store, cur, pulled, runStart,
                 attempts, embed, saved>>

SaveIgnoringSkip ==
  /\ pc = "saving"
  /\ store' = SaveReport(store, cur.id).rows
  /\ saved' = saved \cup {cur.id}
  /\ pc' = "sending"
  /\ out' = [op |-> "save", arg |-> cur.id, ok |-> TRUE, val |-> "False"]
  /\ UNCHANGED <<walk, env, err, skip_discord, conn, table, cur, pulled, runStart,
                 attempts, embed>>

\* lines 193-194
Save ==
  /\ pc = "saving"
  /\ LET s == SaveReport(store, cur.id)
     IN  /\ store' = s.rows
         /\ saved' = saved \cup {cur.id}
         /\ out' = [op |-> "save", arg |-> cur.id, ok |-> s.ok, val |-> "False"]
         /\ IF ~s.ok
              THEN pc' = "crashed" /\ err' = "sql"
              ELSE /\ pc' = IF Truthy(skip_discord) THEN "logging" ELSE "sending"
                   /\ err' = err
  /\ UNCHANGED <<walk, env, skip_discord, conn, table, cur, pulled, runStart,
                 attempts, embed>>

SendFailRollback ==
  /\ pc = "sending"
  /\ \E refreshOk \in BOOLEAN :
       LET g == GenerateEmbed(cur, refreshOk)
       IN  /\ embed' = g
           /\ err' = IF g.ok THEN "dispatch" ELSE g.err
  /\ attempts' = Append(attempts, [report |-> cur.id, at |-> Len(pulled), ok |-> FALSE])
  /\ store' = SubSeq(store, 1, Len(store) - 1)
  /\ pc' = "crashed"
  /\ UNCHANGED <<walk, env, skip_discord, conn, table, cur, pulled, runStart, out, saved>>

\* lines 194-195, __send_to_discord raises: __generate_embed raised, or
\* hook.send did. Nothing in run catches it.
SendFail ==
  /\ pc = "sending"
  /\ \E refreshOk \in BOOLEAN :
       LET g == GenerateEmbed(cur, refreshOk)
       IN  /\ embed' = g
           /\ err' = IF g.ok THEN "dispatch" ELSE g.err
  /\ attempts' = Append(attempts, [report |-> cur.id, at |-> Len(pulled), ok |-> FALSE])
  /\ pc' = "crashed"
  /\ UNCHANGED <<walk, env, skip_discord, conn, table, store, cur, pulled, runStart,
                 out, saved>>

\* lines 194-195, __send_to_discord returns
SendOk ==
  /\ pc = "sending"
  /\ \E refreshOk \in BOOLEAN :
       LET g == GenerateEmbed(cur, refreshOk)
       IN  /\ g.ok
           /\ embed' = g
  /\ attempts' = Append(attempts, [report |-> cur.id, at |-> Len(pulled), ok |-> TRUE])
  /\ pc' = "logging"
  /\ UNCHANGED <<walk, env, err, skip_discord, conn, table, store, cur, pulled,
                 runStart, out, saved>>

\* line 196
Log ==
  /\ pc = "logging"
  /\ out' = [op |-> "print",
             arg |-> <<GetReportType(cur), cur.author>> \o GetReportUrl(cur),
             ok |-> TRUE, val |-> "has been reported"]
  /\ pc' = "listening"
  /\ UNCHANGED <<walk, env, err, skip_discord, conn, table, store, cur, pulled,
                 runStart, attempts, embed, saved>>

\* the process is terminated from outside
Kill ==
  /\ pc \in Running
  /\ pc' = "killed"
  /\ err' = "killed"
  /\ UNCHANGED <<walk, env, skip_discord, conn, table, store, cur, pulled, runStart,
                 attempts, embed, out, saved>>

RestartLosesRows ==
  /\ pc \in Ended
  /\ pc' = "start"
  /\ err' = "none"
  /\ skip_discord' = PyFalse
  /\ conn' = FALSE
  /\ cur' = NoReport
  /\ embed' = NoEmbed
  /\ out' = NoOut
  /\ runStart' = Len(pulled)
  /\ store' = <<>>
  /\ UNCHANGED <<walk, env, table, pulled, attempts, saved>>

\* __main__, line 200, once more: the table and its rows are all that is kept
Restart ==
  /\ pc \in Ended
  /\ pc' = "start"
  /\ err' = "none"
  /\ skip_discord' = PyFalse
  /\ conn' = FALSE
  /\ cur' = NoReport
  /\ embed' = NoEmbed
  /\ out' = NoOut
  /\ runStart' = Len(pulled)
  /\ UNCHANGED <<walk, env, table, store, pulled, attempts, saved>>

Next ==
  \/ StartupMissing
  \/ StartupConnectFail
  \/ StartupOk
  \/ Pull
  \/ StreamError
  \/ Check
  \/ Save
  \/ SendOk
  \/ SendFail
  \/ Log
  \/ Kill
  \/ Restart

Spec == Init /\ [][Next]_vars

(***************************************************************************)
(* The store on its own: __report_exists and __save_report applied to      *)
(* arbitrary identity strings, the quote character included.               *)
(***************************************************************************)
IdChars == {"a", Quote}

RECURSIVE Strings(_, _)
Strings(chars, n) ==
  IF n = 0 THEN {<<>>}
  ELSE LET shorter == Strings(chars, n - 1)
       IN  shorter \cup {Append(t, c) : t \in shorter, c \in chars}

Identities == Strings(IdChars, MaxIdLen)

Bool(b) == IF b THEN "True" ELSE "False"

InitStore ==
  /\ env = [v \in ConfigVars |-> IF v = "SKIP_DISCORD" THEN PyFalse ELSE Text(<<"x">>)]
  /\ pc = "store"
  /\ err = "none"
  /\ skip_discord = PyFalse
  /\ conn = TRUE
  /\ table = TRUE
  /\ store = <<>>
  /\ cur = NoReport
  /\ pulled = <<>>
  /\ runStart = 0
  /\ attempts = <<>>
  /\ embed = NoEmbed
  /\ out = NoOut
  /\ saved = {}
  /\ walk = NoWalk

\* __report_exists(identity)
StoreExists ==
  /\ pc = "store"
  /\ \E i \in Identities :
       LET e == ReportExists(store, i)
       IN  out' = [op |-> "exists", arg |-> i, ok |-> e.ok, val |-> Bool(e.val)]
  /\ UNCHANGED <<walk, env, pc, err, skip_discord, conn, table, store, cur, pulled,
                 runStart, attempts, embed, saved>>

\* __save_report(identity)
StoreSave ==
  /\ pc = "store"
  /\ Len(store) < MaxRows
  /\ \E i \in Identities :
       LET s == SaveReport(store, i)
       IN  /\ store' = s.rows
           /\ saved' = saved \cup {i}
           /\ out' = [op |-> "save", arg |-> i, ok |-> s.ok, val |-> "False"]
  /\ UNCHANGED <<walk, env, pc, err, skip_discord, conn, table, cur, pulled,
                 runStart, attempts, embed>>

NextStore == StoreExists \/ StoreSave

SpecStore == InitStore /\ [][NextStore]_vars

(***************************************************************************)
(* The renderer on its own: __generate_embed applied to one report.        *)
(***************************************************************************)
\* a body of n characters that differ along the text and need escaping
Body(n) ==
  [i \in 1..n |-> IF i % 5 = 0 THEN "\"" ELSE IF i % 3 = 0 THEN "\n"
                  ELSE IF i % 2 = 0 THEN "b" ELSE "a"]

Bodies == {Body(n) : n \in 0..MaxBodyLen}

ReasonPairs == {<<"spam", "mod1">>, <<"rude", "mod2">>}

ReasonLists == Strings(ReasonPairs, MaxReasons)

Nodes(type) ==
  IF type = "submission" THEN Submissions
  ELSE {c \in Comments : c <= 2 * (MaxRenderDepth + 2)}

\* every body with fixed reasons, and every pair of reason lists with a
\* fixed body; each for both types, every node and both kinds of author
RenderInputs ==
  LET base(t, a, n, b, m, u) ==
        [id |-> <<"r">>, type |-> t, author |-> a, node |-> n, body |-> b,
         mod_reports |-> m, user_reports |-> u]
  IN  UNION {
        {base(t, a, n, b, <<<<"spam", "mod1">>>>, <<>>) :
           a \in {"alice", None}, n \in Nodes(t), b \in Bodies}
        \cup
        {base(t, a, n, Body(3), m, u) :
           a \in {"alice", None}, n \in Nodes(t), m \in ReasonLists,
           u \in ReasonLists}
        : t \in {"submission", "comment"}}

InitRender ==
  /\ env = [v \in ConfigVars |-> IF v = "SKIP_DISCORD" THEN PyFalse ELSE Text(<<"x">>)]
  /\ pc = "render"
  /\ err = "none"
  /\ skip_discord = PyFalse
  /\ conn = TRUE
  /\ table = TRUE
  /\ store = <<>>
  /\ cur \in RenderInputs
  /\ pulled = <<>>
  /\ runStart = 0
  /\ attempts = <<>>
  /\ embed = NoEmbed
  /\ out = NoOut
  /\ saved = {}
  /\ walk = NoWalk

\* __generate_embed(report)
Render ==
  /\ pc = "render"
  /\ \E refreshOk \in BOOLEAN :
       /\ embed' = GenerateEmbed(cur, refreshOk)
       /\ out' = [op |-> "render", arg |-> cur.id, ok |-> refreshOk, val |-> "False"]
  /\ pc' = "rendered"
  /\ UNCHANGED <<walk, env, err, skip_discord, conn, table, store, cur, pulled,
                 runStart, attempts, saved>>

NextRender == Render

SpecRender == InitRender /\ [][NextRender]_vars

(***************************************************************************)
(* The ancestor walk on its own, one loop iteration per step.              *)
(***************************************************************************)
\* a comment from which no top-level comment is ever reached: the chain
\* 0, -2, -4, ... on which is_root stays false
Endless == {0}

WalkStarts == Comments \cup Endless

\* the model stops following an endless chain here; the code has no such test
HopCap == MaxDepth + 5

InitWalk ==
  /\ env = [v \in ConfigVars |-> IF v = "SKIP_DISCORD" THEN PyFalse ELSE Text(<<"x">>)]
  /\ pc = "walk"
  /\ err = "none"
  /\ skip_discord = PyFalse
  /\ conn = TRUE
  /\ table = TRUE
  /\ store = <<>>
  /\ cur = NoReport
  /\ pulled = <<>>
  /\ runStart = 0
  /\ attempts = <<>>
  /\ embed = NoEmbed
  /\ out = NoOut
  /\ saved = {}
  /\ \E c \in WalkStarts :
       walk = [pc |-> "loop", start |-> c, ancestor |-> c, refresh_counter |-> 0,
               refreshed |-> <<>>, result |-> 0]

WalkHopRefreshTenth ==
  /\ walk.pc = "loop"
  /\ ~IsRoot(walk.ancestor)
  /\ walk.refresh_counter < HopCap
  /\ LET a == Parent(walk.ancestor)
     IN  walk' = [walk EXCEPT
           !.ancestor = a,
           !.refreshed = IF walk.refresh_counter % (RefreshEvery + 1) = 0
                           THEN Append(@, [hop |-> walk.refresh_counter, node |-> a])
                           ELSE @,
           !.refresh_counter = @ + 1]
  /\ UNCHANGED <<env, pc, err, skip_discord, conn, table, store, cur, pulled,
                 runStart, attempts, embed, out, saved>>

\* lines 68-72: one iteration of the loop, the refresh (if any) returning
WalkHop ==
  /\ walk.pc = "loop"
  /\ ~IsRoot(walk.ancestor)
  /\ walk.refresh_counter < HopCap
  /\ LET a == Parent(walk.ancestor)
     IN  walk' = [walk EXCEPT
           !.ancestor = a,
           !.refreshed = IF walk.refresh_counter % RefreshEvery = 0
                           THEN Append(@, [hop |-> walk.refresh_counter, node |-> a])
                           ELSE @,
           !.refresh_counter = @ + 1]
  /\ UNCHANGED <<env, pc, err, skip_discord, conn, table, store, cur, pulled,
                 runStart, attempts, embed, out, saved>>

\* lines 68-71: ancestor.refresh() raises
WalkHopRaises ==
  /\ walk.pc = "loop"
  /\ ~IsRoot(walk.ancestor)
  /\ walk.refresh_counter < HopCap
  /\ walk.refresh_counter % RefreshEvery = 0
  /\ walk' = [walk EXCEPT !.ancestor = Parent(walk.ancestor), !.pc = "raised"]
  /\ UNCHANGED <<env, pc, err, skip_discord, conn, table, store, cur, pulled,
                 runStart, attempts, embed, out, saved>>

WalkReturnsAncestor ==
  /\ walk.pc = "loop"
  /\ IsRoot(walk.ancestor)
  /\ walk' = [walk EXCEPT !.result = walk.ancestor, !.pc = "done"]
  /\ UNCHANGED <<env, pc, err, skip_discord, conn, table, store, cur, pulled,
                 runStart, attempts, embed, out, saved>>

\* lines 68, 73-74: the loop ends and the parent of the top-level comment
\* is returned
WalkReturn ==
  /\ walk.pc = "loop"
  /\ IsRoot(walk.ancestor)
  /\ walk' = [walk EXCEPT !.result = Parent(walk.ancestor), !.pc = "done"]
  /\ UNCHANGED <<env, pc, err, skip_discord, conn, table, store, cur, pulled,
                 runStart, attempts, embed, out, saved>>

NextWalk == WalkHop \/ WalkHopRaises \/ WalkReturn

SpecWalk == InitWalk /\ [][NextWalk]_vars

\* the interpreter runs the loop for as long as it can go on
SpecWalkFair == SpecWalk /\ WF_vars(WalkHop) /\ WF_vars(WalkReturn)

(***************************************************************************)
(* Properties                                                              *)
(***************************************************************************)
NoDup(q) == \A i, j \in 1..Len(q) : q[i] = q[j] => i = j

\* the arrival position of an identity that arrived
Idx(id) == CHOOSE k \in 1..Len(pulled) : pulled[k] = id

\* C1: an identity seen again creates no second row and no second dispatch:
\* the table never holds two rows of one identity, no identity is dispatched
\* twice, a save is only reached for an identity without a row and a dispatch
\* only for an identity never dispatched before.
C1_Idempotence ==
  /\ \A i, j \in 1..Len(store) : store[i].report = store[j].report => i = j
  /\ \A i, j \in 1..Len(attempts) :
       attempts[i].report = attempts[j].report => i = j
  /\ pc = "saving" => ~HasRow(store, cur.id)
  /\ pc = "sending" => \A k \in 1..Len(attempts) : attempts[k].report # cur.id

\* C1: an identity arrived a second time after it was saved and dispatched,
\* and was reported as already seen.
C1_Witness ==
  /\ pc = "listening"
  /\ out.val = "already reported"
  /\ \E i, j \in 1..Len(pulled) : i < j /\ pulled[i] = cur.id /\ pulled[j] = cur.id
  /\ \E k \in 1..Len(attempts) : attempts[k].report = cur.id
  /\ HasRow(store, cur.id)

\* C2: a per-item failure (rendering, the ancestor walk, the webhook) leaves
\* the loop running.
C2_FailureIsolation == err \in {"render", "walk", "dispatch"} => pc \in Running

\* C3: a dispatch is only attempted for an identity whose row is committed,
\* the row of every attempted identity stays, and a failed attempt is never
\* followed by another attempt for that identity.
C3_PersistBeforeDispatch ==
  /\ pc = "sending" => HasRow(store, cur.id)
  /\ \A k \in 1..Len(attempts) : HasRow(store, attempts[k].report)
  /\ \A k, l \in 1..Len(attempts) :
       k < l /\ ~attempts[k].ok => attempts[l].report # attempts[k].report

\* C3: a dispatch failed, the process was started again, the same identity
\* arrived and was found in the table.
C3_Witness ==
  /\ pc = "listening"
  /\ out.val = "already reported"
  /\ \E k \in 1..Len(attempts) : ~attempts[k].ok /\ attempts[k].report = cur.id
  /\ HasRow(store, cur.id)

\* C4: while the process runs with a truthy skip flag, __send_to_discord is
\* never reached and has not been called in this run, and every identity
\* that arrived in this run and is through its save has a row.
C4_Suppressed ==
  (pc \in Running /\ Truthy(skip_discord)) =>
    /\ pc # "sending"
    /\ \A k \in 1..Len(attempts) : attempts[k].at <= runStart
    /\ \A i \in (runStart + 1)..Len(pulled) :
         (i < Len(pulled) \/ pc \in {"listening", "logging"})
           => HasRow(store, pulled[i])

\* C4: two new reports were saved and confirmed with the flag set.
C4_Witness ==
  /\ pc = "listening"
  /\ Truthy(skip_discord)
  /\ out.val = "has been reported"
  /\ Len(store) >= 2
  /\ attempts = <<>>

\* C5: rows are committed in arrival order (for distinct arrivals), every
\* earlier arrival of the run has its row before the next item is looked
\* at, and the item in the loop body is always the one that arrived last.
C5_Ordering ==
  /\ \A i \in 1..Len(store) : \E k \in 1..Len(pulled) : pulled[k] = store[i].report
  /\ NoDup(pulled) =>
       \A i, j \in 1..Len(store) :
         i < j => Idx(store[i].report) < Idx(store[j].report)
  /\ pc \in Running =>
       \A i \in (runStart + 1)..(Len(pulled) - 1) : HasRow(store, pulled[i])
  /\ pc \in InItem => Len(pulled) > runStart /\ cur.id = pulled[Len(pulled)]

\* C5: three distinct reports arrived and all three have rows.
C5_Witness ==
  /\ NoDup(pulled)
  /\ Len(pulled) = 3
  /\ Len(store) = 3
  /\ pc = "listening"

\* C6: exists(identity) returns true iff save(identity) was executed, and
\* save(identity) appends one row holding exactly that identity, for every
\* identity string.
C6_StoreLookup ==
  pc = "store" =>
    /\ out.op = "exists" => out.ok /\ (out.val = "True" <=> out.arg \in saved)
    /\ out.op = "save" =>
         /\ out.ok
         /\ Len(store) > 0
         /\ store[Len(store)].report = out.arg
    /\ Len(store) = Cardinality({i \in 1..Len(store) : store[i].report \in saved})

\* C7: the loop runs only with every required variable set, the connection
\* open and the table there; a missing variable is reported and ends the
\* process before the connection is opened and before anything is pulled,
\* and a failed connection ends it before anything is pulled.
C7_Startup ==
  /\ pc \in Running => (\A v \in Required : env[v].set) /\ conn /\ table
  /\ (\E v \in Required : ~env[v].set) => pc \in {"start", "exited"} /\ ~conn
  /\ err = "config" =>
       /\ pc = "exited"
       /\ out.val = "not set"
       /\ \E v \in Required : ~env[v].set
       /\ Len(pulled) = runStart
  /\ err = "connect" => pc = "crashed" /\ ~conn /\ Len(pulled) = runStart
  /\ pc = "start" => ~conn

\* C7: the process has exited over a missing variable.
C7_Witness ==
  /\ pc = "exited"
  /\ err = "config"
  /\ ~env["DATABASE_URL"].set
  /\ ~conn
  /\ pulled = <<>>

\* the submission a node of the site hangs under
RootOf(report) ==
  IF report.type = "submission" THEN report.node
  ELSE IF report.node % 2 = 1 THEN 1 ELSE 2

\* nesting depth of a comment
DepthOf(report) == (report.node - 3) \div 2

Renders ==
  /\ pc = "rendered"
  /\ cur.author # None
  /\ cur.type = "submission" \/ out.ok

\* C8 as written: the name of the content field is the title itself.
C8_TitleVerbatim ==
  Renders => embed.ok /\ embed.embed.fields[1].name = Title(RootOf(cur))

\* C8: the name of the content field is the JSON encoding of the title of
\* the submission the report hangs under, whatever the nesting depth.
C8_RootTitle ==
  Renders => embed.ok /\ embed.embed.fields[1].name = JsonDumps(Title(RootOf(cur)))

\* C8: a comment of the greatest depth under the submission titled T.
C8_Witness ==
  /\ Renders
  /\ cur.type = "comment"
  /\ DepthOf(cur) = MaxRenderDepth
  /\ RootOf(cur) = 1
  /\ embed.embed.fields[1].name = <<"\"", "T", "\"">>

\* the texts made of the first 120 characters of the body and 3 more
Seq120Plus3 ==
  {[i \in 1..123 |-> IF i <= 120 /\ i <= Len(cur.body) THEN cur.body[i] ELSE "."]}

\* C9: the excerpt is the body when the body has at most 120 characters, and
\* otherwise its first 120 characters followed by three dots, 123 in all.
C9_Truncation ==
  (pc = "rendered" /\ embed.ok) =>
    IF Len(cur.body) <= 120
      THEN embed.embed.fields[1].value = JsonDumps(cur.body)
      ELSE \E x \in Seq120Plus3 :
             /\ embed.embed.fields[1].value = JsonDumps(x)
             /\ Len(x) = 123
             /\ \A i \in 1..120 : x[i] = cur.body[i]
             /\ \A i \in 121..123 : x[i] = "."

\* C9: a body of more than 120 characters was rendered.
C9_Witness ==
  /\ pc = "rendered"
  /\ embed.ok
  /\ Len(cur.body) = 121
  /\ cur.type = "comment"

FieldsNamed(name) ==
  {i \in 1..Len(embed.embed.fields) : embed.embed.fields[i].name = name}

\* reports[i] is line i of value, lines being "reason - name" and separated
\* by a newline
IsLinesOf(value, reports) ==
  /\ Len(value) = 4 * Len(reports) - 1
  /\ \A i \in 1..Len(reports) :
       /\ value[4 * i - 3] = reports[i][1]
       /\ value[4 * i - 2] = " - "
       /\ value[4 * i - 1] = reports[i][2]
       /\ i < Len(reports) => value[4 * i] = "\n"

\* C10: the document has a moderator-reports field iff there is a moderator
\* reason and a user-reports field iff there is a user reason, each at most
\* once, holding one "reason - name" line per pair in list order.
C10_ReportFields ==
  (pc = "rendered" /\ embed.ok) =>
    /\ FieldsNamed(<<"Mod Reports">>) # {} <=> Len(cur.mod_reports) > 0
    /\ FieldsNamed(<<"User Reports">>) # {} <=> Len(cur.user_reports) > 0
    /\ Cardinality(FieldsNamed(<<"Mod Reports">>)) <= 1
    /\ Cardinality(FieldsNamed(<<"User Reports">>)) <= 1
    /\ \A i \in FieldsNamed(<<"Mod Reports">>) :
         IsLinesOf(embed.embed.fields[i].value, cur.mod_reports)
    /\ \A i \in FieldsNamed(<<"User Reports">>) :
         IsLinesOf(embed.embed.fields[i].value, cur.user_reports)

\* C10: mod_reports = [(spam, mod1)] and no user reports: one field, with
\* the line "spam - mod1".
C10_Witness ==
  /\ pc = "rendered"
  /\ embed.ok
  /\ cur.mod_reports = <<<<"spam", "mod1">>>>
  /\ cur.user_reports = <<>>
  /\ \E i \in 1..Len(embed.embed.fields) :
       /\ embed.embed.fields[i].name = <<"Mod Reports">>
       /\ embed.embed.fields[i].value = <<"spam", " - ", "mod1">>
  /\ FieldsNamed(<<"User Reports">>) = {}

\* C11: the rows of the table only grow: every step leaves each existing row
\* as it is, and the only step that changes the table is the save of an
\* identity that has no row, which appends exactly one row.
C11_RecordLifecycle ==
  [][ /\ \A i \in 1..Len(store) : i <= Len(store') /\ store'[i] = store[i]
      /\ store' # store =>
           /\ pc = "saving"
           /\ ~HasRow(store, cur.id)
           /\ store' = Append(store, [id |-> Len(store) + 1, report |-> cur.id]) ]_vars

\* C11: two rows have lived through a dispatch, a restart and a duplicate.
C11_Witness ==
  /\ Len(store) >= 2
  /\ runStart > 0
  /\ attempts # <<>>
  /\ pc = "listening"
  /\ out.val = "already reported"

\* C12: the processing of an item is over only once one of the two log
\* lines is printed for it: "already reported" for an identity that had its
\* row, without a save or a dispatch for that arrival, and the confirmation
\* line for a new one, after its save.
C12_LogOutcome ==
  (cur # NoReport /\ pc \in {"listening", "crashed"}) =>
    /\ out.op = "print"
    /\ out.val \in {"already reported", "has been reported"}
    /\ out.val = "already reported" =>
         /\ out.arg = cur.id
         /\ \A k \in 1..Len(attempts) : attempts[k].at # Len(pulled)
    /\ out.val = "has been reported" =>
         /\ HasRow(store, cur.id)
         /\ out.arg = <<GetReportType(cur), cur.author>> \o GetReportUrl(cur)

\* an identity that has its row, was never delivered and is not in dispatch
Lost(id) ==
  /\ HasRow(store, id)
  /\ ~(pc = "sending" /\ cur.id = id)
  /\ \A k \in 1..Len(attempts) : attempts[k].report = id => ~attempts[k].ok

DeliveredOnce ==
  \A k, l \in 1..Len(attempts) :
    (attempts[k].report = attempts[l].report /\ attempts[k].ok /\ attempts[l].ok)
      => k = l

\* C15: the rows outlive the end of a process and its restart; an identity
\* with a row is answered "already reported" and not dispatched; an identity
\* whose row is committed but whose delivery did not succeed (the process
\* ended, the dispatch failed, or delivery was suppressed) stays undelivered
\* in every later step of every later run; and no identity is delivered twice.
C15_AtMostOnce ==
  [][ /\ pc \in Ended \cup {"start"} => store' = store
      /\ (pc = "checking" /\ HasRow(store, cur.id)) => pc' \in {"listening", "killed"}
      /\ \A r \in FeedReports : Lost(r.id) => Lost(r.id)'
      /\ DeliveredOnce' ]_vars

\* C15: the process ended between the commit and the dispatch of a report;
\* in a later run the report arrived again and was skipped, undelivered.
C15_Witness ==
  /\ pc = "listening"
  /\ runStart > 0
  /\ ~skip_discord.set
  /\ out.val = "already reported"
  /\ HasRow(store, cur.id)
  /\ \A k \in 1..Len(attempts) : attempts[k].report # cur.id

\* C16: the flag the loop tests is the raw text of SKIP_DISCORD: a dispatch
\* is reached only when the variable is unset or empty, and a new report is
\* confirmed without a dispatch exactly when it is set to a non-empty text,
\* "false" and "0" included.
C16_SkipFlag ==
  LET v == env["SKIP_DISCORD"]
  IN  /\ pc \in Running => skip_discord = v
      /\ pc = "sending" => (~v.set \/ v.text = <<>>)
      /\ pc = "logging" =>
           ((v.set /\ v.text # <<>>)
              <=> \A k \in 1..Len(attempts) : attempts[k].at # Len(pulled))

\* C16: SKIP_DISCORD=false: a new report is saved and about to be confirmed,
\* and nothing was dispatched.
C16_Witness ==
  /\ env["SKIP_DISCORD"] = Text(<<"f", "a", "l", "s", "e">>)
  /\ pc = "logging"
  /\ HasRow(store, cur.id)
  /\ attempts = <<>>

\* the hops of the walk so far on which the ancestor was refreshed
RefreshedHops == {walk.refreshed[i].hop : i \in 1..Len(walk.refreshed)}

\* C13: of the hops made so far (numbered from 0) exactly the hops 0, 9,
\* 18, ... refreshed, each once, each on the ancestor reached in that hop
\* and never on the reported comment; so any 9 hops in a row hold a
\* refresh, and two hops or more do not all refresh.
C13_RefreshPolicy ==
  LET n == walk.refresh_counter
  IN  /\ RefreshedHops \subseteq 0..(n - 1)
      /\ \A h \in 0..(n - 1) : h \in RefreshedHops <=> (\E m \in 0..n : h = 9 * m)
      /\ Cardinality(RefreshedHops) = Len(walk.refreshed)
      /\ \A i \in 1..Len(walk.refreshed) :
           /\ walk.refreshed[i].node = walk.start - 2 * (walk.refreshed[i].hop + 1)
           /\ walk.refreshed[i].node # walk.start
      /\ \A w \in 0..(n - 9) : \E h \in w..(w + 8) : h \in RefreshedHops
      /\ n >= 2 => \E h \in 0..(n - 1) : h \notin RefreshedHops

\* C13: a walk of 19 hops or more has returned, after refreshing on its
\* 1st, 10th and 19th hop.
C13_Witness ==
  /\ walk.pc = "done"
  /\ walk.refresh_counter >= 19
  /\ RefreshedHops = {0, 9, 18}

\* the number of parent links from a comment to its top-level ancestor
LinksToTop(c) == (c - 3) \div 2

\* C14: from a comment with d links to its top-level ancestor the walk ends
\* (it returns, or a refresh raises); when it returns it has made exactly d
\* hops, none and no refresh for d = 0, and holds the submission above the
\* comment, as the walk computed in one piece does. On a chain where is_root
\* stays false the loop condition holds at every hop and the walk never
\* returns.
C14_Termination ==
  /\ [](walk.start \in Comments => <>(walk.pc \in {"done", "raised"}))
  /\ [](walk.pc = "done" =>
          /\ walk.start \in Comments
          /\ walk.refresh_counter = LinksToTop(walk.start)
          /\ walk.result = (IF walk.start % 2 = 1 THEN 1 ELSE 2)
          /\ LinksToTop(walk.start) = 0 => walk.refreshed = <<>>
          /\ LET w == GetSubmissionFromComment(walk.start, TRUE)
             IN  w.ok /\ w.result = walk.result /\ w.hops = walk.refresh_counter)
  /\ []((walk.pc = "loop" /\ walk.start \notin Comments) => ~IsRoot(walk.ancestor))

\* C14: a walk of ten hops or more has returned.
C14_Witness ==
  /\ walk.pc = "done"
  /\ walk.refresh_counter >= 10
  /\ walk.refresh_counter = LinksToTop(walk.start)
  /\ walk.result \in Submissions

====
